---- MODULE Spec2Model ----
(***************************************************************************)
(* Model of scripts/validate_against_amap.py: name normalisation, the      *)
(* three-tier matcher find_best_match and the categorising loop of main.   *)
(* The page loop of scripts/scrape_gaoxin_esf.py, the row loop of          *)
(* scripts/geocode_communities.py and the cell and page loops of           *)
(* scripts/scan_amap_pois.py follow, each with a specification of its own. *)
(*                                                                         *)
(* Encoding.                                                               *)
(*  - A Python str is a sequence of characters; a character is a one-token *)
(*    string.  Non-ASCII characters are written by code point, "U82D1".    *)
(*  - An optional value (None or a value v) is <<>> or <<v>>.              *)
(*  - A reference record (a dict held in amap_data) is identified by its   *)
(*    position in amap_data; a "poi" returned by find_best_match is        *)
(*    <<position>> or None.                                                *)
(*  - Coordinates are whole grid units.  All records of the model that     *)
(*    reach haversine lie on one parallel, one grid unit of longitude      *)
(*    being 5 m there, so distances are whole metres.                      *)
(***************************************************************************)
EXTENDS Integers, Sequences, FiniteSets, TLC

VARIABLES
    our_data,          \* list returned by load_our_data()
    amap_data,         \* list returned by load_amap_data()
    amap_norm_index,   \* dict: normalized key -> list of pois
    outcomes,          \* (poi, match_type, dist) returned in each iteration
    detail_rows,       \* list of row dicts
    cat1_accurate,     \* list of names
    cat2_inaccurate,   \* list of (name, dist)
    cat3_only_ours,    \* list of names
    matched_amap_ids,  \* set of poi_id
    cat4_only_amap,    \* list of pois
    pc,                \* position in main: "index", "match", "done", or
                       \* "crashed" (an exception left main), "idle" (no run)
    first_run,         \* results of an earlier run of main over the same rows
                       \* in another order, None when there was none
    raw_name,          \* argument of a normalize_name call
    key1,              \* normalize_name(raw_name)
    key2,              \* normalize_name(key1)
    npc,               \* position of the normalize_name calls: "idle",
                       \* "start", "once", "twice"
    \* scripts/scrape_gaoxin_esf.py, main
    page,              \* loop variable of "for page in range(1, TOTAL_PAGES + 1)"
    html,              \* result of the last fetch_page call
    all_communities,   \* list of community dicts
    failed_pages,      \* list of page numbers
    fetch_log,         \* the fetch_page calls made so far: (page, result)
    spc,               \* position in main: "idle", "fetch", "retry", "store",
                       \* "done"
    \* scripts/geocode_communities.py, main
    rows,              \* list of row dicts read from the CSV
    stats,             \* dict: accuracy label -> count
    zone_stats,        \* dict: zone -> count
    api_log,           \* the API calls made so far: (row index, function)
    gi,                \* enumerate index i of the loop over rows, from 1
    gpc,               \* position in main: "idle", "row", "done"
    \* scripts/scan_amap_pois.py, main
    centers,           \* list of grid cell centers
    data,              \* result of the last search_around call
    all_pois,          \* dict: poi_id -> poi dict, as the list of its
                       \* values in insertion order
    csv_rows,          \* rows written to OUTPUT_FILE
    search_log,        \* the search_around calls made so far: (cell, page,
                       \* status and count of a first-page answer)
    ci,                \* enumerate index i of the loop over centers, from 1
    next_page,         \* loop variable page of the inner loop
    stop_page,         \* end of the inner range, min(total_pages + 1, 20)
    cpc                \* position in main: "idle", "first", "more", "write",
                       \* "done", or "crashed" (an exception left main)

mainVars == <<our_data, amap_data, amap_norm_index, outcomes, detail_rows,
              cat1_accurate, cat2_inaccurate, cat3_only_ours, matched_amap_ids,
              cat4_only_amap, pc>>

nameVars == <<raw_name, key1, key2, npc>>

scrapeVars == <<page, html, all_communities, failed_pages, fetch_log, spc>>

geoVars == <<rows, stats, zone_stats, api_log, gi, gpc>>

scanVars == <<centers, data, all_pois, csv_rows, search_log, ci, next_page,
              stop_page, cpc>>

scriptVars == <<scrapeVars, geoVars, scanVars>>

vars == <<mainVars, first_run, nameVars, scriptVars>>

-----------------------------------------------------------------------------
(* Bounds of the model *)

MaxOur == 2     \* primary records of a run of main
MaxAmap == 3    \* reference records of a run of main
MaxPois == 3    \* reference records offered to a single find_best_match
MaxNameLen == 3 \* characters of a name normalize_name is applied to on its own
MaxCells == 2   \* grid cells scanned by scan_amap_pois.main
MaxRows == 2    \* rows of the CSV read by geocode_communities.main
TOTAL_PAGES == 3 \* pages of the scraper's loop (56 in scrape_gaoxin_esf.py, line 16)

-----------------------------------------------------------------------------
(* Program constants *)

ACCURATE_THRESHOLD == 100
MATCH_THRESHOLD == 500
PAGE_SIZE == 25

-----------------------------------------------------------------------------
(* Python values *)

None == <<>>
Some(v) == <<v>>

\* Truth value of a float-or-None operand of "and" / "or": None and 0.0 are false.
Truthy(x) == x # None /\ x[1] # 0

\* x or ""
OrEmpty(x) == IF Truthy(x) THEN x ELSE None

Abs(n) == IF n < 0 THEN -n ELSE n

ISqrt(n) == CHOOSE r \in 0..n : r * r <= n /\ (r + 1) * (r + 1) > n

-----------------------------------------------------------------------------
(* haversine: metres between two points given in grid units.  On the grid  *)
(* the great-circle distance of two points of one parallel is 5 m per      *)
(* unit of longitude; off the parallel the planar value is rounded down.   *)

\* Mutant of haversine: dphi is taken from the sum of the latitudes.
haversine_SumLat(lat1, lon1, lat2, lon2) ==
    LET dphi == Abs(lat2 + lat1)
        dlam == Abs(lon2 - lon1)
    IN  IF dphi = 0 THEN 5 * dlam
        ELSE IF dlam = 0 THEN 5 * dphi
        ELSE ISqrt(25 * (dphi * dphi + dlam * dlam))

haversine(lat1, lon1, lat2, lon2) ==
    LET dphi == Abs(lat2 - lat1)
        dlam == Abs(lon2 - lon1)
    IN  IF dphi = 0 THEN 5 * dlam
        ELSE IF dlam = 0 THEN 5 * dphi
        ELSE ISqrt(25 * (dphi * dphi + dlam * dlam))

-----------------------------------------------------------------------------
(* normalize_name *)

\* The character class of the first re.sub: punctuation, brackets, quotes, \s.
PunctChars ==
    {"U00B7", "-", "U2014", "U2022", "UFF0E", ".", "(", ")", "UFF08", "UFF09",
     "[", "]", "U3010", "U3011", "U300C", "U300D", "U300E", "U300F",
     "\"", "'"}

WhitespaceChars == {" ", "\t", "\n", "\r", "\f", "U000B", "U3000"}

\* The alternation of the second re.sub, two-character words first.
Suffixes2 ==
    {<<"U5C0F", "U533A">>, <<"U82B1", "U56ED">>, <<"U5BB6", "U56ED">>,
     <<"U793E", "U533A">>, <<"U516C", "U5BD3">>}

Suffixes1 ==
    {"U82D1", "U5C45", "U5EAD", "U5E9C", "U9662", "U57CE", "U91CC", "U5883",
     "U6E7E", "U9601", "U8F69", "U7B2C"}

UpperLetters ==
    <<"A", "B", "C", "D", "E", "F", "G", "H", "I", "J", "K", "L", "M",
      "N", "O", "P", "Q", "R", "S", "T", "U", "V", "W", "X", "Y", "Z">>

LowerLetters ==
    <<"a", "b", "c", "d", "e", "f", "g", "h", "i", "j", "k", "l", "m",
      "n", "o", "p", "q", "r", "s", "t", "u", "v", "w", "x", "y", "z">>

\* str.lower() on one character.
LowerChar(c) ==
    IF \E i \in 1..Len(UpperLetters) : UpperLetters[i] = c
    THEN LowerLetters[CHOOSE i \in 1..Len(UpperLetters) : UpperLetters[i] = c]
    ELSE c

\* re.sub(r'[...]', '', name)
RemovePunct(name) ==
    SelectSeq(name, LAMBDA c : c \notin PunctChars /\ c \notin WhitespaceChars)

\* Mutant of the suffix removal: suffix words are removed until none is left.
RECURSIVE StripSuffix_Recursive(_)
StripSuffix_Recursive(name) ==
    LET n == Len(name)
    IN  IF n >= 2 /\ SubSeq(name, n - 1, n) \in Suffixes2
        THEN StripSuffix_Recursive(SubSeq(name, 1, n - 2))
        ELSE IF n >= 1 /\ name[n] \in Suffixes1
        THEN StripSuffix_Recursive(SubSeq(name, 1, n - 1))
        ELSE name

\* re.sub(r'(...)$', '', name): the leftmost match that reaches the end.
StripSuffix(name) ==
    LET n == Len(name)
    IN  IF n >= 2 /\ SubSeq(name, n - 1, n) \in Suffixes2 THEN SubSeq(name, 1, n - 2)
        ELSE IF n >= 1 /\ name[n] \in Suffixes1 THEN SubSeq(name, 1, n - 1)
        ELSE name

\* Mutant: the suffix is removed before the punctuation.
normalize_name_SuffixFirst(name) ==
    LET stripped == RemovePunct(StripSuffix(name))
    IN  [i \in 1..Len(stripped) |-> LowerChar(stripped[i])]

normalize_name(name) ==
    LET stripped == StripSuffix(RemovePunct(name))
    IN  [i \in 1..Len(stripped) |-> LowerChar(stripped[i])]

\* str.strip()
RECURSIVE LStrip(_)
LStrip(s) ==
    IF s # <<>> /\ s[1] \in WhitespaceChars THEN LStrip(Tail(s)) ELSE s

RECURSIVE RStrip(_)
RStrip(s) ==
    IF s # <<>> /\ s[Len(s)] \in WhitespaceChars
    THEN RStrip(SubSeq(s, 1, Len(s) - 1)) ELSE s

Strip(s) == RStrip(LStrip(s))

-----------------------------------------------------------------------------
(* load_our_data / load_amap_data: one record per CSV row.  A row is given *)
(* with its coordinate cells already read: None for an empty cell.         *)

OurRecord(row) ==
    [name |-> Strip(row.name), lng |-> row.lng, lat |-> row.lat,
     normalized |-> normalize_name(row.name)]

AmapRecord(row) ==
    [poi_id |-> row.poi_id, name |-> Strip(row.name), lng |-> row.lng,
     lat |-> row.lat, normalized |-> normalize_name(row.name)]

-----------------------------------------------------------------------------
(* find_best_match *)

\* a in b, for str
IsSubstring(a, b) ==
    \E i \in 0..(Len(b) - Len(a)) : SubSeq(b, i + 1, i + Len(a)) = a

\* amap_norm_index.get(norm, [])
IndexGet(index, norm) == IF norm \in DOMAIN index THEN index[norm] ELSE <<>>

\* record["lng"] and record["lat"] and poi["lng"] and poi["lat"]
\* Mutant of the guard of the distance: only the longitudes are tested.
AllCoords_LngOnly(record, poi) ==
    Truthy(record.lng) /\ Truthy(poi.lng)

AllCoords(record, poi) ==
    Truthy(record.lng) /\ Truthy(record.lat) /\ Truthy(poi.lng) /\ Truthy(poi.lat)

Dist(record, poi) == haversine(record.lat[1], record.lng[1], poi.lat[1], poi.lng[1])

\* Mutant of strategy 1: the return is outside the loop, so the last
\* candidate is the one returned.
ExactNameMatch_LastCandidate(record, amap_pois, candidates) ==
    LET p == candidates[Len(candidates)]
        poi == amap_pois[p]
    IN  <<Some(p), "exact_name",
          IF AllCoords(record, poi) THEN Some(Dist(record, poi)) ELSE None>>

\* Mutant of strategy 1: a candidate whose poi_id is already in
\* matched_amap_ids is passed over when another one is left.
ExactNameMatch_Exclusive(record, amap_pois, candidates) ==
    LET free == {k \in 1..Len(candidates) :
                    amap_pois[candidates[k]].poi_id \notin matched_amap_ids}
        p == IF free = {} THEN candidates[1]
             ELSE candidates[CHOOSE k \in free : \A l \in free : k <= l]
        poi == amap_pois[p]
    IN  <<Some(p), "exact_name",
          IF AllCoords(record, poi) THEN Some(Dist(record, poi)) ELSE None>>

\* Strategy 1: the loop over the candidates returns in its first iteration.
ExactNameMatch(record, amap_pois, candidates) ==
    LET p == candidates[1]
        poi == amap_pois[p]
    IN  <<Some(p), "exact_name",
          IF AllCoords(record, poi) THEN Some(Dist(record, poi)) ELSE None>>

\* Mutant of strategy 2: a poi whose poi_id is already in matched_amap_ids
\* is passed over.
RECURSIVE SubstringScan_SkipMatched(_, _, _)
SubstringScan_SkipMatched(record, amap_pois, i) ==
    IF i > Len(amap_pois) THEN None
    ELSE LET poi == amap_pois[i]
             norm == record.normalized
         IN  IF /\ poi.poi_id \notin matched_amap_ids
                /\ Len(norm) >= 2 /\ Len(poi.normalized) >= 2
                /\ (IsSubstring(norm, poi.normalized) \/ IsSubstring(poi.normalized, norm))
             THEN IF AllCoords(record, poi)
                  THEN IF Dist(record, poi) < MATCH_THRESHOLD
                       THEN <<Some(i), "substring", Some(Dist(record, poi))>>
                       ELSE SubstringScan_SkipMatched(record, amap_pois, i + 1)
                  ELSE <<Some(i), "substring_nocoord", None>>
             ELSE SubstringScan_SkipMatched(record, amap_pois, i + 1)

\* Mutant of strategy 2: a distance of MATCH_THRESHOLD itself is accepted.
RECURSIVE SubstringScan_Inclusive(_, _, _)
SubstringScan_Inclusive(record, amap_pois, i) ==
    IF i > Len(amap_pois) THEN None
    ELSE LET poi == amap_pois[i]
             norm == record.normalized
         IN  IF /\ Len(norm) >= 2 /\ Len(poi.normalized) >= 2
                /\ (IsSubstring(norm, poi.normalized) \/ IsSubstring(poi.normalized, norm))
             THEN IF AllCoords(record, poi)
                  THEN IF Dist(record, poi) <= MATCH_THRESHOLD
                       THEN <<Some(i), "substring", Some(Dist(record, poi))>>
                       ELSE SubstringScan_Inclusive(record, amap_pois, i + 1)
                  ELSE <<Some(i), "substring_nocoord", None>>
             ELSE SubstringScan_Inclusive(record, amap_pois, i + 1)

\* Mutant of strategy 2: the length of the record's key is not tested.
RECURSIVE SubstringScan_AnyLength(_, _, _)
SubstringScan_AnyLength(record, amap_pois, i) ==
    IF i > Len(amap_pois) THEN None
    ELSE LET poi == amap_pois[i]
             norm == record.normalized
         IN  IF /\ Len(poi.normalized) >= 2
                /\ (IsSubstring(norm, poi.normalized) \/ IsSubstring(poi.normalized, norm))
             THEN IF AllCoords(record, poi)
                  THEN IF Dist(record, poi) < MATCH_THRESHOLD
                       THEN <<Some(i), "substring", Some(Dist(record, poi))>>
                       ELSE SubstringScan_AnyLength(record, amap_pois, i + 1)
                  ELSE <<Some(i), "substring_nocoord", None>>
             ELSE SubstringScan_AnyLength(record, amap_pois, i + 1)

\* Strategy 2: the scan of amap_pois from position i; None when it falls through.
RECURSIVE SubstringScan(_, _, _)
SubstringScan(record, amap_pois, i) ==
    IF i > Len(amap_pois) THEN None
    ELSE LET poi == amap_pois[i]
             norm == record.normalized
         IN  IF /\ Len(norm) >= 2 /\ Len(poi.normalized) >= 2
                /\ (IsSubstring(norm, poi.normalized) \/ IsSubstring(poi.normalized, norm))
             THEN IF AllCoords(record, poi)
                  THEN IF Dist(record, poi) < MATCH_THRESHOLD
                       THEN <<Some(i), "substring", Some(Dist(record, poi))>>
                       ELSE SubstringScan(record, amap_pois, i + 1)
                  ELSE <<Some(i), "substring_nocoord", None>>
             ELSE SubstringScan(record, amap_pois, i + 1)

\* Mutant of strategy 3: a poi without coordinates counts as being at the
\* place of the record.
RECURSIVE ClosestScan_NoCoordIsHere(_, _, _, _, _)
ClosestScan_NoCoordIsHere(record, amap_pois, i, closest_poi, closest_dist) ==
    IF i > Len(amap_pois) THEN <<closest_poi, closest_dist>>
    ELSE LET poi == amap_pois[i]
             d == IF Truthy(poi.lng) /\ Truthy(poi.lat) THEN Dist(record, poi) ELSE 0
         IN  IF d < 50 /\ (closest_dist = None \/ d < closest_dist[1])
             THEN ClosestScan_NoCoordIsHere(record, amap_pois, i + 1, Some(i), Some(d))
             ELSE ClosestScan_NoCoordIsHere(record, amap_pois, i + 1, closest_poi,
                                            closest_dist)

\* Mutant of strategy 3: the radius is 5 m instead of 50 m.
RECURSIVE ClosestScan_Radius5(_, _, _, _, _)
ClosestScan_Radius5(record, amap_pois, i, closest_poi, closest_dist) ==
    IF i > Len(amap_pois) THEN <<closest_poi, closest_dist>>
    ELSE LET poi == amap_pois[i]
         IN  IF /\ Truthy(poi.lng) /\ Truthy(poi.lat)
                /\ Dist(record, poi) < 5
                /\ (closest_dist = None \/ Dist(record, poi) < closest_dist[1])
             THEN ClosestScan_Radius5(record, amap_pois, i + 1, Some(i),
                                      Some(Dist(record, poi)))
             ELSE ClosestScan_Radius5(record, amap_pois, i + 1, closest_poi,
                                      closest_dist)

\* Strategy 3: the scan from position i with the running closest_poi and
\* closest_dist (None standing for float("inf")).
RECURSIVE ClosestScan(_, _, _, _, _)
ClosestScan(record, amap_pois, i, closest_poi, closest_dist) ==
    IF i > Len(amap_pois) THEN <<closest_poi, closest_dist>>
    ELSE LET poi == amap_pois[i]
         IN  IF /\ Truthy(poi.lng) /\ Truthy(poi.lat)
                /\ Dist(record, poi) < 50
                /\ (closest_dist = None \/ Dist(record, poi) < closest_dist[1])
             THEN ClosestScan(record, amap_pois, i + 1, Some(i), Some(Dist(record, poi)))
             ELSE ClosestScan(record, amap_pois, i + 1, closest_poi, closest_dist)

CoordProximityMatch(record, amap_pois) ==
    IF Truthy(record.lng) /\ Truthy(record.lat)
    THEN LET c == ClosestScan(record, amap_pois, 1, None, None)
         IN  IF c[1] # None THEN <<c[1], "coord_proximity", c[2]>>
             ELSE <<None, "None", None>>
    ELSE <<None, "None", None>>

\* Mutant: strategy 3 is tried before strategy 2.
find_best_match_ProximityFirst(record, amap_pois, index) ==
    LET candidates == IndexGet(index, record.normalized)
    IN  IF candidates # <<>> THEN ExactNameMatch(record, amap_pois, candidates)
        ELSE LET c == CoordProximityMatch(record, amap_pois)
                 s == SubstringScan(record, amap_pois, 1)
             IN  IF c[1] # None THEN c
                 ELSE IF s # None THEN s
                 ELSE <<None, "None", None>>

\* Mutant: strategy 1 is skipped for an empty key ("if norm:").
find_best_match_SkipsEmptyKey(record, amap_pois, index) ==
    LET candidates == IndexGet(index, record.normalized)
    IN  IF record.normalized # <<>> /\ candidates # <<>>
        THEN ExactNameMatch(record, amap_pois, candidates)
        ELSE LET s == SubstringScan(record, amap_pois, 1)
             IN  IF s # None THEN s
                 ELSE CoordProximityMatch(record, amap_pois)

find_best_match(record, amap_pois, index) ==
    LET candidates == IndexGet(index, record.normalized)
    IN  IF candidates # <<>> THEN ExactNameMatch(record, amap_pois, candidates)
        ELSE LET s == SubstringScan(record, amap_pois, 1)
             IN  IF s # None THEN s
                 ELSE CoordProximityMatch(record, amap_pois)

\* haversine applied to the coordinates of record and poi raises (TypeError
\* in math.radians) when one of the four is None.
CallRaises(record, poi) ==
    record.lat = None \/ record.lng = None \/ poi.lat = None \/ poi.lng = None

\* The positions of amap_pois on which the scan of strategy 2 from position i
\* calls haversine, up to its return or to the first call that raises.
RECURSIVE SubstringCalls(_, _, _)
SubstringCalls(record, amap_pois, i) ==
    IF i > Len(amap_pois) THEN {}
    ELSE LET poi == amap_pois[i]
             norm == record.normalized
         IN  IF /\ Len(norm) >= 2 /\ Len(poi.normalized) >= 2
                /\ (IsSubstring(norm, poi.normalized) \/ IsSubstring(poi.normalized, norm))
             THEN IF AllCoords(record, poi)
                  THEN IF CallRaises(record, poi) THEN {i}
                       ELSE IF Dist(record, poi) < MATCH_THRESHOLD THEN {i}
                       ELSE {i} \cup SubstringCalls(record, amap_pois, i + 1)
                  ELSE {}
             ELSE SubstringCalls(record, amap_pois, i + 1)

\* The positions of amap_pois on which find_best_match calls haversine, up to
\* its return or to the first call that raises.
HaversineCalls(record, amap_pois, index) ==
    LET candidates == IndexGet(index, record.normalized)
        s2 == SubstringCalls(record, amap_pois, 1)
    IN  IF candidates # <<>>
        THEN IF AllCoords(record, amap_pois[candidates[1]]) THEN {candidates[1]} ELSE {}
        ELSE IF \E i \in s2 : CallRaises(record, amap_pois[i]) THEN s2
        ELSE IF SubstringScan(record, amap_pois, 1) # None THEN s2
        ELSE IF Truthy(record.lng) /\ Truthy(record.lat)
             THEN s2 \cup {i \in 1..Len(amap_pois) :
                              Truthy(amap_pois[i].lng) /\ Truthy(amap_pois[i].lat)}
             ELSE s2

\* find_best_match ends in an exception instead of returning.
Raises(record, amap_pois, index) ==
    \E i \in HaversineCalls(record, amap_pois, index) : CallRaises(record, amap_pois[i])

-----------------------------------------------------------------------------
(* main *)

\* Mutant of the index build: a record is put at the head of its bucket.
RECURSIVE IndexFrom_Prepend(_, _, _)
IndexFrom_Prepend(pois, i, index) ==
    IF i > Len(pois) THEN index
    ELSE LET norm == pois[i].normalized
             withKey == IF norm \in DOMAIN index THEN index
                        ELSE [k \in DOMAIN index \cup {norm} |->
                                 IF k = norm THEN <<>> ELSE index[k]]
         IN  IndexFrom_Prepend(pois, i + 1, [withKey EXCEPT ![norm] = <<i>> \o @])

\* The index-building loop, from position i with the dict built so far.
RECURSIVE IndexFrom(_, _, _)
IndexFrom(pois, i, index) ==
    IF i > Len(pois) THEN index
    ELSE LET norm == pois[i].normalized
             withKey == IF norm \in DOMAIN index THEN index
                        ELSE [k \in DOMAIN index \cup {norm} |->
                                 IF k = norm THEN <<>> ELSE index[k]]
         IN  IndexFrom(pois, i + 1, [withKey EXCEPT ![norm] = Append(@, i)])

EmptyDict == [k \in {} |-> <<>>]

\* Mutant: the membership test is inverted.
RECURSIVE OnlyAmapFrom_Inverted(_, _, _)
OnlyAmapFrom_Inverted(pois, ids, i) ==
    IF i > Len(pois) THEN <<>>
    ELSE IF pois[i].poi_id \in ids
         THEN <<i>> \o OnlyAmapFrom_Inverted(pois, ids, i + 1)
         ELSE OnlyAmapFrom_Inverted(pois, ids, i + 1)

\* The loop "for poi in amap_data: if poi_id not in matched_amap_ids".
RECURSIVE OnlyAmapFrom(_, _, _)
OnlyAmapFrom(pois, ids, i) ==
    IF i > Len(pois) THEN <<>>
    ELSE IF pois[i].poi_id \notin ids
         THEN <<i>> \o OnlyAmapFrom(pois, ids, i + 1)
         ELSE OnlyAmapFrom(pois, ids, i + 1)

\* Mutant: the threshold comparison is <= instead of <.
Category_Inclusive(poi, dist) ==
    IF poi # None
    THEN IF dist # None /\ dist[1] <= ACCURATE_THRESHOLD THEN "both_accurate"
         ELSE IF dist # None THEN "both_inaccurate"
         ELSE "both_nocoord"
    ELSE "only_ours"

\* Mutant: a match without distance is labelled like the list it is added to.
Category_NoCoordAccurate(poi, dist) ==
    IF poi # None
    THEN IF dist # None /\ dist[1] < ACCURATE_THRESHOLD THEN "both_accurate"
         ELSE IF dist # None THEN "both_inaccurate"
         ELSE "both_accurate"
    ELSE "only_ours"

\* The category chosen for one outcome (the if / elif / else of the loop body).
Category(poi, dist) ==
    IF poi # None
    THEN IF dist # None /\ dist[1] < ACCURATE_THRESHOLD THEN "both_accurate"
         ELSE IF dist # None THEN "both_inaccurate"
         ELSE "both_nocoord"
    ELSE "only_ours"

\* The row dict written for one record.
DetailRow(rec, poi, match_type, dist) ==
    [our_name |-> rec.name,
     our_lng |-> OrEmpty(rec.lng),
     our_lat |-> OrEmpty(rec.lat),
     amap_name |-> IF poi # None THEN amap_data[poi[1]].name ELSE <<>>,
     amap_lng |-> IF poi # None THEN OrEmpty(amap_data[poi[1]].lng) ELSE None,
     amap_lat |-> IF poi # None THEN OrEmpty(amap_data[poi[1]].lat) ELSE None,
     match_type |-> IF poi # None THEN match_type ELSE "",
     distance_m |-> IF poi # None THEN dist ELSE None,
     category |-> Category(poi, dist)]

-----------------------------------------------------------------------------
(* Inputs: the rows of the two CSV files *)

\* Rows of gaoxin_merged_all.csv: name and the two coordinate cells.
OurRows ==
    { [name |-> <<"A", "-", "b", "U82D1">>, lng |-> Some(5), lat |-> Some(1)],
      [name |-> <<"a", "b", "c">>,          lng |-> Some(5), lat |-> Some(1)],
      [name |-> <<"x", "y">>,              lng |-> Some(10), lat |-> Some(1)],
      [name |-> <<"a", "b">>,               lng |-> None,    lat |-> None],
      [name |-> <<"x", "y", " ">>,          lng |-> Some(0), lat |-> Some(1)],
      [name |-> <<"a">>,                    lng |-> Some(5), lat |-> None],
      [name |-> <<"U82D1">>,                lng |-> Some(5), lat |-> Some(1)] }

\* Rows of gaoxin_amap_pois.csv: poi_id, name and the two coordinate cells.
AmapRows ==
    { [poi_id |-> "B1", name |-> <<"a", "b">>,
       lng |-> Some(5), lat |-> Some(1)],
      [poi_id |-> "B2", name |-> <<"a", "b", "U5C0F", "U533A">>,
       lng |-> Some(105), lat |-> Some(1)],
      [poi_id |-> "B3", name |-> <<"A", "B", "C">>,
       lng |-> Some(25), lat |-> Some(1)],
      [poi_id |-> "B4", name |-> <<"z", "w">>,
       lng |-> Some(10), lat |-> Some(1)],
      [poi_id |-> "B5", name |-> <<"a">>,
       lng |-> Some(5), lat |-> Some(1)],
      [poi_id |-> "B6", name |-> <<"(", "a", "b", ")">>,
       lng |-> None, lat |-> None],
      [poi_id |-> "B7", name |-> <<"a", "b", "c", "d">>,
       lng |-> Some(105), lat |-> Some(0)],
      [poi_id |-> "B8", name |-> <<"a", "b", "c", "U82D1">>,
       lng |-> Some(20), lat |-> Some(1)],
      [poi_id |-> "B9", name |-> <<"-">>,
       lng |-> Some(15), lat |-> Some(1)] }

\* The rows that runs of main over several primary records are drawn from.
MainOurRows ==
    {r \in OurRows : r.name \in {<<"A", "-", "b", "U82D1">>, <<"a", "b", "c">>,
                                 <<"x", "y">>, <<"a", "b">>}}

MainAmapRows == {r \in AmapRows : r.poi_id \in {"B1", "B2", "B3", "B4"}}

\* The rows of the end-to-end scenario.  A has the key of R1 and lies 50 m
\* east or west of it, B has no coordinates and a name of its own, C has a
\* name of its own and lies 30 m east or west of R2; R3 is far from all.
ScenarioOurRows(aName, aSide, cSide) ==
    << [name |-> aName, lng |-> Some(1000 + 10 * aSide), lat |-> Some(1)],
       [name |-> <<"p", "q">>, lng |-> None, lat |-> None],
       [name |-> <<"x", "y">>, lng |-> Some(3000 + 6 * cSide), lat |-> Some(1)] >>

ScenarioAmapRows(r1Name, r3Lng) ==
    << [poi_id |-> "R1", name |-> r1Name, lng |-> Some(1000), lat |-> Some(1)],
       [poi_id |-> "R2", name |-> <<"c", "d">>, lng |-> Some(3000), lat |-> Some(1)],
       [poi_id |-> "R3", name |-> <<"z", "w">>, lng |-> Some(r3Lng), lat |-> Some(1)] >>

\* Names with the normalized key "ab".
ScenarioNames ==
    {<<"a", "b">>, <<"A", "-", "b", "U82D1">>, <<"A", "B", " ", "U5C0F", "U533A">>}

\* The reference rows of the runs that are repeated in another order.
OrderAmapRows == {r \in AmapRows : r.poi_id \in {"B1", "B3", "B4"}}

\* Rows for the ties of strategy 3: a primary record, and reference records
\* of other names 25 m west and east of it and 5 m south, east and west.
TieOurRows ==
    { [name |-> <<"x", "y">>, lng |-> Some(10), lat |-> Some(1)] }

TieAmapRows ==
    { [poi_id |-> "T1", name |-> <<"a", "b">>, lng |-> Some(5),  lat |-> Some(1)],
      [poi_id |-> "T2", name |-> <<"c", "d">>, lng |-> Some(15), lat |-> Some(1)],
      [poi_id |-> "T3", name |-> <<"e", "f">>, lng |-> Some(10), lat |-> Some(0)],
      [poi_id |-> "T4", name |-> <<"g", "h">>, lng |-> Some(11), lat |-> Some(1)],
      [poi_id |-> "T5", name |-> <<"p", "q">>, lng |-> Some(9),  lat |-> Some(1)] }

SeqsUpTo(S, n) == UNION {[1..k -> S] : k \in 0..n}

-----------------------------------------------------------------------------
(* The state machine of main *)

\* scrape_gaoxin_esf.main is not running.
ScrapeIdle ==
    /\ page = 0 /\ html = None /\ all_communities = <<>> /\ failed_pages = <<>>
    /\ fetch_log = <<>> /\ spc = "idle"

\* geocode_communities.main is not running.
GeoIdle ==
    /\ rows = <<>> /\ stats = <<>> /\ zone_stats = <<>> /\ api_log = <<>>
    /\ gi = 0 /\ gpc = "idle"

\* scan_amap_pois.main is not running.
ScanIdle ==
    /\ centers = <<>> /\ data = None /\ all_pois = <<>> /\ csv_rows = <<>>
    /\ search_log = <<>> /\ ci = 0
    /\ next_page = 0 /\ stop_page = 0 /\ cpc = "idle"

\* validate_against_amap.main is not running and normalize_name is not called.
ValidateIdle ==
    /\ our_data = <<>> /\ amap_data = <<>> /\ amap_norm_index = EmptyDict
    /\ outcomes = <<>> /\ detail_rows = <<>>
    /\ cat1_accurate = <<>> /\ cat2_inaccurate = <<>> /\ cat3_only_ours = <<>>
    /\ matched_amap_ids = {} /\ cat4_only_amap = <<>>
    /\ pc = "idle"
    /\ first_run = None
    /\ raw_name = <<>> /\ key1 = <<>> /\ key2 = <<>> /\ npc = "idle"

\* The locals of main before the index is built, the two files read.
Loaded(ourRows, amapRows) ==
    /\ our_data = [i \in 1..Len(ourRows) |-> OurRecord(ourRows[i])]
    /\ amap_data = [i \in 1..Len(amapRows) |-> AmapRecord(amapRows[i])]
    /\ amap_norm_index = EmptyDict
    /\ outcomes = <<>>
    /\ detail_rows = <<>>
    /\ cat1_accurate = <<>>
    /\ cat2_inaccurate = <<>>
    /\ cat3_only_ours = <<>>
    /\ matched_amap_ids = {}
    /\ cat4_only_amap = <<>>
    /\ pc = "index"
    /\ first_run = None
    /\ raw_name = <<>> /\ key1 = <<>> /\ key2 = <<>> /\ npc = "idle"
    /\ ScrapeIdle /\ GeoIdle /\ ScanIdle

\* A run of main over up to MaxOur primary and MaxAmap reference records.
Init ==
    \E ourRows \in SeqsUpTo(MainOurRows, MaxOur) :
        \E amapRows \in SeqsUpTo(MainAmapRows, MaxAmap) :
            Loaded(ourRows, amapRows)

\* A run of main over one primary record, any of OurRows, and up to MaxPois
\* reference records: find_best_match applied once to each such input.
InitMatch ==
    \E row \in OurRows :
        \E amapRows \in SeqsUpTo(AmapRows, MaxPois) :
            Loaded(<<row>>, amapRows)

\* A run of main over the rows of the end-to-end scenario.
InitScenario ==
    \E aName \in ScenarioNames, r1Name \in ScenarioNames :
        \E aSide \in {-1, 1}, cSide \in {-1, 1}, r3Lng \in {5000, 7000} :
            Loaded(ScenarioOurRows(aName, aSide, cSide),
                   ScenarioAmapRows(r1Name, r3Lng))

\* Lines 136-142: build the normalized name index.
BuildIndex ==
    /\ pc = "index"
    /\ amap_norm_index' = IndexFrom(amap_data, 1, EmptyDict)
    /\ pc' = "match"
    /\ UNCHANGED <<our_data, amap_data, outcomes, detail_rows, cat1_accurate,
                   cat2_inaccurate, cat3_only_ours, matched_amap_ids, cat4_only_amap>>
    /\ UNCHANGED <<first_run, nameVars, scriptVars>>

\* Mutant: the loop stops one record early.
LoopDone_OffByOne == Len(detail_rows) >= Len(our_data) - 1

\* "for rec in our_data" is exhausted: every record has had its iteration.
LoopDone == Len(detail_rows) = Len(our_data)

\* Mutant of the loop body: an outcome without distance is counted in no
\* summary list.
MatchStep_NoCoordUncounted(rec) ==
    LET m == find_best_match(rec, amap_data, amap_norm_index)
        poi == m[1]
        match_type == m[2]
        dist == m[3]
        category == Category(poi, dist)
    IN  /\ outcomes' = Append(outcomes, m)
        /\ matched_amap_ids' =
              IF poi # None THEN matched_amap_ids \cup {amap_data[poi[1]].poi_id}
              ELSE matched_amap_ids
        /\ cat1_accurate' =
              IF category = "both_accurate"
              THEN Append(cat1_accurate, rec.name) ELSE cat1_accurate
        /\ cat2_inaccurate' =
              IF category = "both_inaccurate"
              THEN Append(cat2_inaccurate, <<rec.name, dist[1]>>) ELSE cat2_inaccurate
        /\ cat3_only_ours' =
              IF category = "only_ours"
              THEN Append(cat3_only_ours, rec.name) ELSE cat3_only_ours
        /\ detail_rows' = Append(detail_rows, DetailRow(rec, poi, match_type, dist))

\* The body of the loop over our_data for one record (lines 153-192).
MatchStep(rec) ==
    LET m == find_best_match(rec, amap_data, amap_norm_index)
        poi == m[1]
        match_type == m[2]
        dist == m[3]
        category == Category(poi, dist)
    IN  /\ outcomes' = Append(outcomes, m)
        /\ matched_amap_ids' =
              IF poi # None THEN matched_amap_ids \cup {amap_data[poi[1]].poi_id}
              ELSE matched_amap_ids
        /\ cat1_accurate' =
              IF category \in {"both_accurate", "both_nocoord"}
              THEN Append(cat1_accurate, rec.name) ELSE cat1_accurate
        /\ cat2_inaccurate' =
              IF category = "both_inaccurate"
              THEN Append(cat2_inaccurate, <<rec.name, dist[1]>>) ELSE cat2_inaccurate
        /\ cat3_only_ours' =
              IF category = "only_ours"
              THEN Append(cat3_only_ours, rec.name) ELSE cat3_only_ours
        /\ detail_rows' = Append(detail_rows, DetailRow(rec, poi, match_type, dist))

\* Mutant of the loop iteration: the bucket of the record's key loses its
\* first candidate (candidates.pop(0)) once the record is matched.
MatchRecord_ConsumesCandidate ==
    /\ pc = "match"
    /\ ~LoopDone
    /\ IF Raises(our_data[Len(detail_rows) + 1], amap_data, amap_norm_index)
       THEN /\ pc' = "crashed"
            /\ UNCHANGED <<outcomes, matched_amap_ids, cat1_accurate, cat2_inaccurate,
                           cat3_only_ours, detail_rows>>
       ELSE /\ MatchStep(our_data[Len(detail_rows) + 1])
            /\ pc' = pc
    /\ amap_norm_index' =
          [k \in DOMAIN amap_norm_index |->
              IF k = our_data[Len(detail_rows) + 1].normalized
              THEN Tail(amap_norm_index[k]) ELSE amap_norm_index[k]]
    /\ UNCHANGED <<our_data, amap_data, cat4_only_amap>>
    /\ UNCHANGED <<first_run, nameVars, scriptVars>>

\* Lines 152-192: one iteration of "for rec in our_data"; an exception raised
\* in find_best_match ends the run.
MatchRecord ==
    /\ pc = "match"
    /\ ~LoopDone
    /\ IF Raises(our_data[Len(detail_rows) + 1], amap_data, amap_norm_index)
       THEN /\ pc' = "crashed"
            /\ UNCHANGED <<outcomes, matched_amap_ids, cat1_accurate, cat2_inaccurate,
                           cat3_only_ours, detail_rows>>
       ELSE /\ MatchStep(our_data[Len(detail_rows) + 1])
            /\ pc' = pc
    /\ UNCHANGED <<our_data, amap_data, amap_norm_index, cat4_only_amap>>
    /\ UNCHANGED <<first_run, nameVars, scriptVars>>

\* Lines 194-198: category 4, after the loop.
ComputeOnlyAmap ==
    /\ pc = "match"
    /\ LoopDone
    /\ cat4_only_amap' = OnlyAmapFrom(amap_data, matched_amap_ids, 1)
    /\ pc' = "done"
    /\ UNCHANGED <<our_data, amap_data, amap_norm_index, outcomes, detail_rows,
                   cat1_accurate, cat2_inaccurate, cat3_only_ours, matched_amap_ids>>
    /\ UNCHANGED <<first_run, nameVars, scriptVars>>

Next == BuildIndex \/ MatchRecord \/ ComputeOnlyAmap

Spec == Init /\ [][Next]_vars

SpecMatch == InitMatch /\ [][Next]_vars

SpecScenario == InitScenario /\ [][Next]_vars

\* A run of main over one primary record and reference records at equal
\* distances from it.
InitTie ==
    \E ourRow \in TieOurRows :
        \E amapRows \in SeqsUpTo(TieAmapRows, MaxPois) :
            Loaded(<<ourRow>>, amapRows)

SpecTie == InitTie /\ [][Next]_vars

\* The characters of the names normalize_name is applied to on its own: a
\* letter in both cases, punctuation, whitespace, two one-character suffix
\* words and the two characters of a two-character suffix word.
NameChars == {"a", "A", "-", " ", "U82D1", "U57CE", "U5C0F", "U533A"}

\* No run of main; normalize_name is about to be called on raw_name.
InitNormalize ==
    /\ our_data = <<>> /\ amap_data = <<>> /\ amap_norm_index = EmptyDict
    /\ outcomes = <<>> /\ detail_rows = <<>>
    /\ cat1_accurate = <<>> /\ cat2_inaccurate = <<>> /\ cat3_only_ours = <<>>
    /\ matched_amap_ids = {} /\ cat4_only_amap = <<>>
    /\ pc = "idle"
    /\ first_run = None
    /\ raw_name \in SeqsUpTo(NameChars, MaxNameLen)
    /\ key1 = <<>> /\ key2 = <<>>
    /\ npc = "start"
    /\ ScrapeIdle /\ GeoIdle /\ ScanIdle

\* key1 = normalize_name(raw_name)
Normalize ==
    /\ npc = "start"
    /\ key1' = normalize_name(raw_name)
    /\ npc' = "once"
    /\ UNCHANGED <<mainVars, first_run, raw_name, key2, scriptVars>>

\* key2 = normalize_name(key1)
Renormalize ==
    /\ npc = "once"
    /\ key2' = normalize_name(key1)
    /\ npc' = "twice"
    /\ UNCHANGED <<mainVars, first_run, raw_name, key1, scriptVars>>

NextNormalize == Normalize \/ Renormalize

SpecNormalize == InitNormalize /\ [][NextNormalize]_vars

\* The orders in which n records can be processed.
Perms(n) == {f \in [1..n -> 1..n] : \A i, j \in 1..n : i # j => f[i] # f[j]}

\* A finished run is kept in first_run and main runs again over the same
\* records, with our_data in the order perm; amap_data and its index stay.
Rerun ==
    /\ pc = "done"
    /\ first_run = None
    /\ \E perm \in Perms(Len(our_data)) :
          /\ first_run' = Some([our_data |-> our_data, outcomes |-> outcomes,
                                detail_rows |-> detail_rows,
                                cat4_only_amap |-> cat4_only_amap,
                                matched_amap_ids |-> matched_amap_ids,
                                perm |-> perm])
          /\ our_data' = [i \in 1..Len(our_data) |-> our_data[perm[i]]]
    /\ outcomes' = <<>>
    /\ detail_rows' = <<>>
    /\ cat1_accurate' = <<>>
    /\ cat2_inaccurate' = <<>>
    /\ cat3_only_ours' = <<>>
    /\ matched_amap_ids' = {}
    /\ cat4_only_amap' = <<>>
    /\ pc' = "match"
    /\ UNCHANGED <<amap_data, amap_norm_index, nameVars, scriptVars>>

InitOrder ==
    \E ourRows \in SeqsUpTo(MainOurRows, MaxOur) :
        \E amapRows \in SeqsUpTo(OrderAmapRows, MaxOur) :
            Loaded(ourRows, amapRows)

NextOrder == Next \/ Rerun

SpecOrder == InitOrder /\ [][NextOrder]_vars

-----------------------------------------------------------------------------
(* Vocabulary of the properties.  These read the records themselves, not   *)
(* the index or the scans of find_best_match.                              *)

\* The primary records whose iteration has run.
Processed == 1..Len(outcomes)

Pois == 1..Len(amap_data)

Min(S) == CHOOSE x \in S : \A y \in S : x <= y

\* A record carries a longitude and a latitude (whatever their values).
HasCoords(r) == r.lng # None /\ r.lat # None

\* The distance of two records that both carry coordinates.
GeoDist(r, p) == haversine(r.lat[1], r.lng[1], p.lat[1], p.lng[1])

\* The reference records with the normalized key of primary record i.
SameKey(i) == {j \in Pois : amap_data[j].normalized = our_data[i].normalized}

\* Key relation of the substring tier: both keys of 2 or more characters,
\* one containing the other.
KeysOverlap(i, j) ==
    LET a == our_data[i].normalized
        b == amap_data[j].normalized
    IN  /\ Len(a) >= 2 /\ Len(b) >= 2
        /\ \/ \E k \in 1..Len(b) : \E l \in k..Len(b) : SubSeq(b, k, l) = a
           \/ \E k \in 1..Len(a) : \E l \in k..Len(a) : SubSeq(a, k, l) = b

\* The substring acceptance rule: (a) both sides have coordinates and are
\* less than 500 m apart, or (b) a side lacks coordinates.
SubstringAcceptable(i, j) ==
    /\ KeysOverlap(i, j)
    /\ \/ /\ HasCoords(our_data[i]) /\ HasCoords(amap_data[j])
          /\ GeoDist(our_data[i], amap_data[j]) < 500
       \/ ~HasCoords(our_data[i])
       \/ ~HasCoords(amap_data[j])

Acceptable(i) == {j \in Pois : SubstringAcceptable(i, j)}

\* The reference records with coordinates less than 50 m from primary record i.
Near(i) ==
    IF HasCoords(our_data[i])
    THEN {j \in Pois : /\ HasCoords(amap_data[j])
                       /\ GeoDist(our_data[i], amap_data[j]) < 50}
    ELSE {}

\* The candidates of the three strategies, as the guards of the code admit
\* them (a coordinate is used when it is true in the sense of "and").
Strategy1Candidates(i) == SameKey(i)

Strategy2Candidates(i) ==
    {j \in Pois : /\ KeysOverlap(i, j)
                  /\ AllCoords(our_data[i], amap_data[j]) =>
                         GeoDist(our_data[i], amap_data[j]) < 500}

Strategy3Candidates(i) ==
    IF Truthy(our_data[i].lng) /\ Truthy(our_data[i].lat)
    THEN {j \in Pois : /\ Truthy(amap_data[j].lng) /\ Truthy(amap_data[j].lat)
                       /\ GeoDist(our_data[i], amap_data[j]) < 50}
    ELSE {}

Matched(i) == outcomes[i][1] # None
PoiOf(i) == outcomes[i][1][1]
TierOf(i) ==
    IF outcomes[i][2] \in {"substring", "substring_nocoord"} THEN "substring"
    ELSE outcomes[i][2]
DistOf(i) == outcomes[i][3]

-----------------------------------------------------------------------------
\* C1: whenever some reference record has the normalized key of a processed
\* primary record, its outcome has tier exact_name and names the earliest
\* reference record with that key, whatever the distances are.
C1_ExactFirstListed ==
    \A i \in Processed :
        SameKey(i) # {} =>
            /\ outcomes[i][2] = "exact_name"
            /\ outcomes[i][1] = Some(Min(SameKey(i)))

\* C1 witness: two reference records share the key, the later one is nearer,
\* and the earlier one was returned.
C1_Witness ==
    \E i \in Processed : \E j, k \in SameKey(i) :
        /\ j < k
        /\ AllCoords(our_data[i], amap_data[j]) /\ AllCoords(our_data[i], amap_data[k])
        /\ GeoDist(our_data[i], amap_data[k]) < GeoDist(our_data[i], amap_data[j])
        /\ outcomes[i][1] = Some(j)

\* C2: the strategies decide in the order exact_name, substring,
\* coord_proximity, the first with a candidate giving the tier: substring
\* only without a same-key record, coord_proximity only if moreover no record
\* passes the substring acceptance rule, no-match only if no strategy has a
\* candidate.
C2_TierOrder ==
    \A i \in Processed :
        /\ TierOf(i) = "exact_name" <=> Strategy1Candidates(i) # {}
        /\ TierOf(i) = "substring" <=>
              (Strategy1Candidates(i) = {} /\ Strategy2Candidates(i) # {})
        /\ TierOf(i) = "coord_proximity" <=>
              /\ Strategy1Candidates(i) = {} /\ Strategy2Candidates(i) = {}
              /\ Strategy3Candidates(i) # {}
        /\ TierOf(i) = "None" <=>
              /\ Strategy1Candidates(i) = {} /\ Strategy2Candidates(i) = {}
              /\ Strategy3Candidates(i) = {}
        /\ TierOf(i) = "substring" => Acceptable(i) \subseteq Strategy2Candidates(i)
        /\ TierOf(i) \in {"coord_proximity", "None"} => Acceptable(i) = {}
        /\ Matched(i) <=> TierOf(i) # "None"

\* C2 witness: a higher strategy decided although a lower one had a candidate
\* too: substring was returned with another record less than 50 m away.
C2_Witness ==
    \E i \in Processed :
        /\ TierOf(i) = "substring"
        /\ \E j \in Strategy3Candidates(i) : Some(j) # outcomes[i][1]

\* C3 (as stated): without a same-key record, the substring tier returns the
\* first reference record acceptable to the substring rule, and none when no
\* record is acceptable.
C3_SubstringFirstAcceptable ==
    \A i \in Processed :
        SameKey(i) = {} =>
            /\ Acceptable(i) # {} =>
                  /\ TierOf(i) = "substring"
                  /\ outcomes[i][1] = Some(Min(Acceptable(i)))
            /\ Acceptable(i) = {} => TierOf(i) # "substring"

\* C4 (as stated): when the first two tiers yield nothing and the primary
\* record has coordinates, the outcome is a reference record with coordinates
\* at the minimum distance among those less than 50 m away, and no-match when
\* there is none.
C4_ProximityMinimum ==
    \A i \in Processed :
        (TierOf(i) \notin {"exact_name", "substring"} /\ HasCoords(our_data[i])) =>
            /\ Near(i) # {} =>
                  /\ TierOf(i) = "coord_proximity"
                  /\ PoiOf(i) \in Near(i)
                  /\ DistOf(i) = Some(GeoDist(our_data[i], amap_data[PoiOf(i)]))
                  /\ \A j \in Near(i) :
                        DistOf(i)[1] <= GeoDist(our_data[i], amap_data[j])
            /\ Near(i) = {} => ~Matched(i)

\* C5: one outcome row per processed primary record, in the order of the
\* primary collection, each with one of the four categories; after the loop
\* every primary record has its row.
C5_OneRowPerRecord ==
    /\ Len(detail_rows) = Len(outcomes)
    /\ Len(detail_rows) <= Len(our_data)
    /\ pc = "done" => Len(detail_rows) = Len(our_data)
    /\ \A i \in 1..Len(detail_rows) :
          /\ detail_rows[i].our_name = our_data[i].name
          /\ detail_rows[i].our_lng = OrEmpty(our_data[i].lng)
          /\ detail_rows[i].category \in
                {"both_accurate", "both_inaccurate", "both_nocoord", "only_ours"}

\* C5 witness: the loop has finished over two records that fell into
\* different categories.
C5_Witness ==
    /\ pc = "done"
    /\ Len(our_data) = 2
    /\ Len(detail_rows) = 2
    /\ detail_rows[1].category # detail_rows[2].category

\* C6: a matched outcome with a distance is both_accurate exactly when the
\* distance is below 100 m and both_inaccurate exactly when it is 100 m or
\* more.
C6_AccuracyThreshold ==
    \A i \in Processed :
        (Matched(i) /\ DistOf(i) # None) =>
            /\ detail_rows[i].category = "both_accurate" <=> DistOf(i)[1] < 100
            /\ detail_rows[i].category = "both_inaccurate" <=> DistOf(i)[1] >= 100

\* C6 witness: an outcome at exactly 100 m, categorised both_inaccurate.
C6_Witness ==
    \E i \in Processed :
        /\ Matched(i)
        /\ DistOf(i) = Some(100)
        /\ detail_rows[i].category = "both_inaccurate"

\* The identifiers that were the matched target of some outcome.
TargetIds == {amap_data[PoiOf(i)].poi_id : i \in {k \in Processed : Matched(k)}}

Occurrences(seq, x) == Cardinality({k \in 1..Len(seq) : seq[k] = x})

\* C7: after all primary records are processed, a reference record is in
\* cat4_only_amap exactly when its identifier was never a matched target, an
\* unmatched one is there once, and matched_amap_ids is the set of targets.
C7_OnlyReference ==
    /\ matched_amap_ids = TargetIds
    /\ pc = "done" =>
          \A j \in Pois :
              Occurrences(cat4_only_amap, j) =
                  IF amap_data[j].poi_id \in TargetIds THEN 0 ELSE 1

\* C7 witness: two primary records matched the same reference record, which
\* is absent from cat4_only_amap, while another reference record is in it.
C7_Witness ==
    /\ pc = "done"
    /\ \E i, k \in Processed :
          /\ i # k /\ Matched(i) /\ Matched(k) /\ PoiOf(i) = PoiOf(k)
          /\ our_data[i] # our_data[k]
          /\ Occurrences(cat4_only_amap, PoiOf(i)) = 0
    /\ Len(cat4_only_amap) = 1

\* C8 (as stated): a matched outcome has a distance exactly when both the
\* primary record and the matched reference record carry a longitude and a
\* latitude, the value 0 included.
C8_DistanceIffCoords ==
    \A i \in Processed :
        Matched(i) =>
            (DistOf(i) # None <=>
                (HasCoords(our_data[i]) /\ HasCoords(amap_data[PoiOf(i)])))

\* C9: both_nocoord exactly for a matched outcome without distance, only_ours
\* exactly for an outcome without a reference record.
C9_NoCoordAndOnlyOurs ==
    \A i \in Processed :
        /\ detail_rows[i].category = "both_nocoord" <=> (Matched(i) /\ DistOf(i) = None)
        /\ detail_rows[i].category = "only_ours" <=> ~Matched(i)
        /\ DistOf(i) = None =>
              detail_rows[i].category \notin {"both_accurate", "both_inaccurate"}

\* C9 witness: a finished run with a both_nocoord row and an only_ours row.
C9_Witness ==
    /\ pc = "done"
    /\ \E i, k \in Processed :
          /\ detail_rows[i].category = "both_nocoord" /\ Matched(i)
          /\ detail_rows[k].category = "only_ours"

\* The fields of a primary record that find_best_match reads.
MatchInputs(r) == <<r.normalized, r.lng, r.lat>>

\* C10: matching is not exclusive: a primary record gets the outcome an
\* earlier primary record with the same key and coordinates got, although
\* that reference record is by then already a matched target.
C10_NotExclusive ==
    \A i, k \in Processed :
        (i < k /\ MatchInputs(our_data[i]) = MatchInputs(our_data[k])) =>
            outcomes[k] = outcomes[i]

\* C10 witness: a reference record that is the target of two outcomes, the
\* later for a record with the same key and coordinates as the earlier, with
\* a second same-key reference record still unmatched.
C10_Witness ==
    \E i, k \in Processed :
        /\ i < k
        /\ MatchInputs(our_data[i]) = MatchInputs(our_data[k])
        /\ Matched(i) /\ Matched(k) /\ PoiOf(i) = PoiOf(k)
        /\ Cardinality(SameKey(k)) = 2

-----------------------------------------------------------------------------
\* C11: in the scenario A, B, C against R1, R2, R3 the run ends with A
\* both_accurate by exact_name on R1 at 50 m, B only_ours, C both_accurate by
\* coord_proximity on R2 at 30 m, and cat4_only_amap holding R3 alone.
C11_Scenario ==
    pc = "done" =>
        /\ outcomes[1] = <<Some(1), "exact_name", Some(50)>>
        /\ outcomes[2] = <<None, "None", None>>
        /\ outcomes[3] = <<Some(2), "coord_proximity", Some(30)>>
        /\ [i \in 1..3 |-> detail_rows[i].category] =
              <<"both_accurate", "only_ours", "both_accurate">>
        /\ [i \in 1..3 |-> detail_rows[i].match_type] =
              <<"exact_name", "", "coord_proximity">>
        /\ cat4_only_amap = <<3>>
        /\ amap_data[3].poi_id = "R3"
        /\ matched_amap_ids = {"R1", "R2"}

\* C11 witness: the scenario has run to its end, with C matched by proximity.
C11_Witness ==
    /\ pc = "done"
    /\ Len(our_data) = 3 /\ Len(amap_data) = 3
    /\ Len(outcomes) = 3
    /\ outcomes[3][2] = "coord_proximity"
    /\ our_data[1].name # amap_data[1].name

-----------------------------------------------------------------------------
\* C12: once the index is built, every reference record is in exactly one
\* bucket, the bucket of its own normalized key, exactly once; every bucket
\* lists its records in the order of the reference collection; and looking up
\* a key that no reference record has yields the empty list.
BucketsHolding(i) ==
    {k \in DOMAIN amap_norm_index :
        \E j \in 1..Len(amap_norm_index[k]) : amap_norm_index[k][j] = i}

C12_IndexBuckets ==
    pc # "index" =>
        /\ \A i \in Pois :
              /\ BucketsHolding(i) = {amap_data[i].normalized}
              /\ Cardinality({j \in 1..Len(amap_norm_index[amap_data[i].normalized]) :
                                amap_norm_index[amap_data[i].normalized][j] = i}) = 1
        /\ \A k \in DOMAIN amap_norm_index :
              /\ \A j \in 1..Len(amap_norm_index[k]) : amap_norm_index[k][j] \in Pois
              /\ \A j1, j2 \in 1..Len(amap_norm_index[k]) :
                    j1 < j2 => amap_norm_index[k][j1] < amap_norm_index[k][j2]
        /\ \A i \in 1..Len(our_data) :
              (\A p \in Pois : amap_data[p].normalized # our_data[i].normalized)
                  => IndexGet(amap_norm_index, our_data[i].normalized) = <<>>

\* C12 witness: an index with a bucket of two records and a second bucket,
\* looked up with a key that no reference record has.
C12_Witness ==
    /\ pc = "match"
    /\ \E k \in DOMAIN amap_norm_index : Len(amap_norm_index[k]) >= 2
    /\ Cardinality(DOMAIN amap_norm_index) >= 2
    /\ Len(outcomes) = 1
    /\ our_data[1].normalized \notin DOMAIN amap_norm_index

-----------------------------------------------------------------------------
\* C13: whatever coordinates are present or absent on the primary record and
\* on the reference records, find_best_match returns an outcome (main is never
\* left by an exception) and haversine is called only on pairs whose four
\* coordinates are all present; without coordinates on the primary record no
\* distance is computed at all and only the name tiers can succeed.
C13_NoCrashOnMissingCoords ==
    /\ pc # "crashed"
    /\ pc # "index" =>
          \A i \in 1..Len(our_data) :
              /\ ~Raises(our_data[i], amap_data, amap_norm_index)
              /\ \A p \in HaversineCalls(our_data[i], amap_data, amap_norm_index) :
                    HasCoords(our_data[i]) /\ HasCoords(amap_data[p])
              /\ ~HasCoords(our_data[i]) =>
                    HaversineCalls(our_data[i], amap_data, amap_norm_index) = {}
    /\ \A i \in Processed :
          /\ outcomes[i][2] \in {"exact_name", "substring", "substring_nocoord",
                                  "coord_proximity", "None"}
          /\ ~HasCoords(our_data[i]) =>
                /\ outcomes[i][2] \in {"exact_name", "substring_nocoord", "None"}
                /\ outcomes[i][3] = None

\* C13 witness: a primary record with a longitude and no latitude has been
\* matched while a reference record without coordinates is in the collection.
C13_Witness ==
    /\ Len(outcomes) = 1
    /\ our_data[1].lng # None /\ our_data[1].lat = None
    /\ \E p \in Pois : amap_data[p].lng = None
    /\ \E p \in Pois : HasCoords(amap_data[p])
    /\ outcomes[1][1] # None

-----------------------------------------------------------------------------
-----------------------------------------------------------------------------
\* C15: no step of a run changes the primary records, the reference records
\* or their normalized keys; once the index is built no step changes it; and
\* a step that processes a primary record changes nothing but the outcome
\* list, the detail and category lists and the matched-identifier set, each
\* of the lists growing by at most the one new entry.
C15_Frame ==
    [][ /\ our_data' = our_data
        /\ amap_data' = amap_data
        /\ [i \in 1..Len(our_data') |-> our_data'[i].normalized] =
              [i \in 1..Len(our_data) |-> normalize_name(our_data[i].name)]
        /\ [i \in 1..Len(amap_data') |-> amap_data'[i].normalized] =
              [i \in 1..Len(amap_data) |-> normalize_name(amap_data[i].name)]
        /\ pc # "index" => amap_norm_index' = amap_norm_index
        /\ (pc = "match" /\ ~LoopDone) =>
              /\ cat4_only_amap' = cat4_only_amap
              /\ pc' = pc
              /\ Len(outcomes') = Len(outcomes) + 1
              /\ SubSeq(outcomes', 1, Len(outcomes)) = outcomes
              /\ SubSeq(detail_rows', 1, Len(detail_rows)) = detail_rows
              /\ matched_amap_ids \subseteq matched_amap_ids'
              /\ \E k1, k2, k3 \in {0, 1} :
                    /\ k1 + k2 + k3 <= 1
                    /\ Len(cat1_accurate') = Len(cat1_accurate) + k1
                    /\ Len(cat2_inaccurate') = Len(cat2_inaccurate) + k2
                    /\ Len(cat3_only_ours') = Len(cat3_only_ours) + k3
              /\ SubSeq(cat1_accurate', 1, Len(cat1_accurate)) = cat1_accurate
              /\ SubSeq(cat2_inaccurate', 1, Len(cat2_inaccurate)) = cat2_inaccurate
              /\ SubSeq(cat3_only_ours', 1, Len(cat3_only_ours)) = cat3_only_ours
      ]_vars

\* C15 witness: two primary records have been processed against an index
\* with a bucket of two, the second matched by its name.
C15_Witness ==
    /\ pc = "match"
    /\ Len(outcomes) = 2
    /\ outcomes[2][2] = "exact_name"
    /\ Len(IndexGet(amap_norm_index, our_data[2].normalized)) = 2
    /\ Len(cat1_accurate) + Len(cat2_inaccurate) = 2

-----------------------------------------------------------------------------
\* The suffix words of the second re.sub, as strings.
SuffixWords == Suffixes2 \cup {<<c>> : c \in Suffixes1}

EndsWith(s, w) == Len(s) >= Len(w) /\ SubSeq(s, Len(s) - Len(w) + 1, Len(s)) = w

EndsInSuffix(s) == \E w \in SuffixWords : EndsWith(s, w)

\* The string s ends in two suffix words, one after the other.
EndsInChain(s) == \E w1, w2 \in SuffixWords : EndsWith(s, w1 \o w2)

Lower(s) == [i \in 1..Len(s) |-> LowerChar(s[i])]

\* C16 as stated: a name that does not itself end in two chained suffix
\* words has a key that normalize_name leaves as it is.
C16_IdempotentUnlessRawChain ==
    (npc = "twice" /\ ~EndsInChain(raw_name)) => key2 = key1

\* C16, amended: normalize_name returns a key for every name, free of
\* punctuation, whitespace and upper-case letters; and for every name that,
\* once its punctuation and whitespace are removed, does not end in two
\* chained suffix words, normalize_name leaves that key as it is.
C16_Idempotent ==
    /\ npc # "start" =>
          /\ Len(key1) <= Len(raw_name)
          /\ \A i \in 1..Len(key1) :
                /\ key1[i] \in NameChars \ (PunctChars \cup WhitespaceChars)
                /\ LowerChar(key1[i]) = key1[i]
    /\ (npc = "twice" /\ ~EndsInChain(RemovePunct(raw_name))) => key2 = key1

\* C16 witness: a name with punctuation, an upper-case letter and one
\* trailing suffix word has been normalized twice.
C16_Witness ==
    /\ npc = "twice"
    /\ ~EndsInChain(RemovePunct(raw_name))
    /\ EndsInSuffix(RemovePunct(raw_name))
    /\ RemovePunct(raw_name) # raw_name
    /\ key1 # <<>> /\ Lower(raw_name) # raw_name
    /\ key2 = key1

\* C17: the key is the name without punctuation and whitespace, in lower
\* case, less at most one suffix word at its end; when that name ends in two
\* chained suffix words only the last one is removed and the one before it
\* ends the key; the empty name has the empty key.
C17_OneSuffixOnly ==
    npc # "start" =>
        /\ \E tail \in SuffixWords \cup {<<>>} :
              Lower(RemovePunct(raw_name)) = key1 \o tail
        /\ \A w1, w2 \in SuffixWords :
              EndsWith(RemovePunct(raw_name), w1 \o w2) =>
                  /\ Lower(RemovePunct(raw_name)) = key1 \o w2
                  /\ EndsWith(key1, w1)
        /\ raw_name = <<>> => key1 = <<>>

\* C17 witness: a name that ends, once a punctuation mark between them is
\* removed, in two chained suffix words has been normalized.
C17_Witness ==
    /\ npc = "once"
    /\ EndsInChain(RemovePunct(raw_name))
    /\ ~EndsInChain(raw_name)
    /\ EndsInSuffix(key1)
    /\ Len(key1) = 1

-----------------------------------------------------------------------------
C19_ProximityNeedsCoords ==
    \A i \in Processed :
        /\ ~HasCoords(our_data[i]) => TierOf(i) # "coord_proximity"
        /\ TierOf(i) = "coord_proximity" => HasCoords(amap_data[PoiOf(i)])
        /\ (/\ ~HasCoords(our_data[i])
            /\ SameKey(i) = {}
            /\ \A j \in Pois : ~KeysOverlap(i, j)) =>
               /\ ~Matched(i)
               /\ TierOf(i) = "None"
               /\ detail_rows[i].category = "only_ours"

\* C19 witness: a primary record with a longitude and no latitude, no
\* candidate by name, and a reference record at its longitude, ended
\* unmatched.
C19_Witness ==
    \E i \in Processed :
        /\ our_data[i].lng # None /\ our_data[i].lat = None
        /\ SameKey(i) = {}
        /\ \A j \in Pois : ~KeysOverlap(i, j)
        /\ \E j \in Pois : HasCoords(amap_data[j]) /\ amap_data[j].lng = our_data[i].lng
        /\ \E j \in Pois : ~HasCoords(amap_data[j])
        /\ ~Matched(i)
        /\ detail_rows[i].category = "only_ours"

\* C20: a coord_proximity outcome has a distance, below 50 m, and the
\* category both_accurate; a substring outcome with a distance has it below
\* 500 m; and the category both_inaccurate comes only with an exact_name
\* outcome at 100 m or more or a substring outcome from 100 m to below 500 m.
C20_DistanceBands ==
    \A i \in Processed :
        /\ TierOf(i) = "coord_proximity" =>
              /\ DistOf(i) # None
              /\ DistOf(i)[1] < 50
              /\ detail_rows[i].category = "both_accurate"
        /\ (TierOf(i) = "substring" /\ DistOf(i) # None) => DistOf(i)[1] < 500
        /\ detail_rows[i].category = "both_inaccurate" =>
              /\ DistOf(i) # None
              /\ \/ TierOf(i) = "exact_name" /\ DistOf(i)[1] >= 100
                 \/ /\ TierOf(i) = "substring"
                    /\ DistOf(i)[1] >= 100 /\ DistOf(i)[1] < 500

\* C20 witness: a substring outcome at 100 m in the category both_inaccurate,
\* while a reference record of another name lies less than 50 m away.
C20_Witness ==
    \E i \in Processed :
        /\ outcomes[i][2] = "substring"
        /\ DistOf(i) = Some(100)
        /\ detail_rows[i].category = "both_inaccurate"
        /\ \E j \in Pois :
              /\ ~KeysOverlap(i, j)
              /\ AllCoords(our_data[i], amap_data[j])
              /\ GeoDist(our_data[i], amap_data[j]) < 50

-----------------------------------------------------------------------------
\* C21: a primary record whose normalized key has fewer than 2 characters,
\* the empty key included, never has a substring outcome, whatever keys the
\* reference records have; its tier is exact_name, coord_proximity or none.
C21_ShortKeyNoSubstring ==
    \A i \in Processed :
        Len(our_data[i].normalized) < 2 =>
            /\ outcomes[i][2] \notin {"substring", "substring_nocoord"}
            /\ TierOf(i) \in {"exact_name", "coord_proximity", "None"}
            /\ Strategy2Candidates(i) = {}

\* C21 witness: a primary record with a key of fewer than 2 characters was
\* processed against a reference record whose longer key contains that key,
\* one of the two lacking a coordinate, and got no substring outcome.
C21_Witness ==
    \E i \in Processed :
        /\ Len(our_data[i].normalized) < 2
        /\ SameKey(i) = {}
        /\ \E j \in Pois :
              /\ Len(amap_data[j].normalized) >= 2
              /\ IsSubstring(our_data[i].normalized, amap_data[j].normalized)
              /\ ~AllCoords(our_data[i], amap_data[j])
        /\ TierOf(i) \in {"coord_proximity", "None"}

-----------------------------------------------------------------------------
\* The reference records at the least distance from primary record i among
\* those less than 50 m away.
Nearest(i) ==
    {j \in Near(i) :
        \A k \in Near(i) : GeoDist(our_data[i], amap_data[j])
                               <= GeoDist(our_data[i], amap_data[k])}

\* C22 (as stated): when two or more reference records lie at the same
\* minimum distance below 50 m from the primary record, a coord_proximity
\* outcome names the earliest of them.
C22_ProximityTieEarliest ==
    \A i \in Processed :
        (TierOf(i) = "coord_proximity" /\ Cardinality(Nearest(i)) >= 2) =>
            PoiOf(i) = Min(Nearest(i))

-----------------------------------------------------------------------------
\* The positions of the detail rows whose category is in the set cats, in
\* the order of the rows.
RowsIn(cats) ==
    SelectSeq([i \in 1..Len(detail_rows) |-> i],
              LAMBDA i : detail_rows[i].category \in cats)

-----------------------------------------------------------------------------
\* C24: the exact_name tier has no minimum key length: a primary record whose
\* normalized key is empty, with a reference record whose key is empty too,
\* has the tier exact_name and the first such reference record as its
\* outcome; a name of punctuation only or of one suffix word has the empty
\* key.
C24_EmptyKeyExact ==
    /\ \A i \in Processed :
          (our_data[i].normalized = <<>>
             /\ \E j \in Pois : amap_data[j].normalized = <<>>) =>
              /\ outcomes[i][2] = "exact_name"
              /\ outcomes[i][1] =
                    Some(Min({j \in Pois : amap_data[j].normalized = <<>>}))
    /\ \A i \in 1..Len(our_data) :
          (\/ \A k \in 1..Len(our_data[i].name) : our_data[i].name[k] \in PunctChars
           \/ our_data[i].name \in SuffixWords) => our_data[i].normalized = <<>>
    /\ \A j \in Pois :
          (\/ \A k \in 1..Len(amap_data[j].name) : amap_data[j].name[k] \in PunctChars
           \/ amap_data[j].name \in SuffixWords) => amap_data[j].normalized = <<>>

\* C24 witness: a primary record named by one suffix word was matched by
\* exact_name with a reference record named by a punctuation mark, listed
\* after a reference record with a key of its own.
C24_Witness ==
    \E i \in Processed :
        /\ our_data[i].name \in SuffixWords
        /\ our_data[i].normalized = <<>>
        /\ outcomes[i][2] = "exact_name"
        /\ PoiOf(i) > 1
        /\ amap_data[PoiOf(i)].name # <<>>
        /\ \A k \in 1..Len(amap_data[PoiOf(i)].name) :
              amap_data[PoiOf(i)].name[k] \in PunctChars
        /\ amap_data[1].normalized # <<>>

-----------------------------------------------------------------------------
(* scripts/scrape_gaoxin_esf.py.  A page's HTML is given by its length in   *)
(* characters and by the community names of its listing blocks.            *)

\* What fetch_page can return: None on an exception, or the decoded HTML.
FetchResults ==
    {None} \cup {Some([len |-> 999, names |-> <<"c1">>]),
                 Some([len |-> 1000, names |-> <<>>]),
                 Some([len |-> 1000, names |-> <<"c1", "c2">>])}

\* Mutant of the test of a fetch: only a missing page counts as failed.
FetchFailed_NoneOnly(h) == h = None

\* "html is None or len(html) < 1000"
FetchFailed(h) == h = None \/ h[1].len < 1000

\* parse_page: one community per listing block, here tagged with its page.
parse_page(h, p) == [k \in 1..Len(h[1].names) |-> <<p, h[1].names[k]>>]

\* main before its loop.
InitScrape ==
    /\ ValidateIdle /\ GeoIdle /\ ScanIdle
    /\ page = 1
    /\ html = None
    /\ all_communities = <<>>
    /\ failed_pages = <<>>
    /\ fetch_log = <<>>
    /\ spc = "fetch"

\* Line 141: the first fetch of the page.
FetchPage ==
    /\ spc = "fetch"
    /\ \E r \in FetchResults :
          /\ html' = r
          /\ fetch_log' = Append(fetch_log, <<page, r>>)
          /\ spc' = IF FetchFailed(r) THEN "retry" ELSE "store"
    /\ UNCHANGED <<page, all_communities, failed_pages>>
    /\ UNCHANGED <<mainVars, first_run, nameVars, geoVars, scanVars>>

\* Lines 144-147: one retry.
RetryPage ==
    /\ spc = "retry"
    /\ \E r \in FetchResults :
          /\ html' = r
          /\ fetch_log' = Append(fetch_log, <<page, r>>)
    /\ spc' = "store"
    /\ UNCHANGED <<page, all_communities, failed_pages>>
    /\ UNCHANGED <<mainVars, first_run, nameVars, geoVars, scanVars>>

\* Lines 149-164: the page is skipped or parsed, and the loop goes on.
StorePage ==
    /\ spc = "store"
    /\ IF FetchFailed(html)
       THEN /\ failed_pages' = Append(failed_pages, page)
            /\ UNCHANGED all_communities
       ELSE /\ all_communities' = all_communities \o parse_page(html, page)
            /\ UNCHANGED failed_pages
    /\ page' = page + 1
    /\ spc' = IF page + 1 > TOTAL_PAGES THEN "done" ELSE "fetch"
    /\ UNCHANGED <<html, fetch_log>>
    /\ UNCHANGED <<mainVars, first_run, nameVars, geoVars, scanVars>>

NextScrape == FetchPage \/ RetryPage \/ StorePage

SpecScrape == InitScrape /\ [][NextScrape]_vars

\* The positions of fetch_log that are fetches of page p.
FetchesOf(p) == {k \in 1..Len(fetch_log) : fetch_log[k][1] = p}

\* The pages whose iteration has ended.
PagesDone == 1..(page - 1)

\* The page was fetched and every fetch of it failed: None, or fewer than
\* 1000 characters.
AllFetchesFailed(p) ==
    /\ FetchesOf(p) # {}
    /\ \A k \in FetchesOf(p) : fetch_log[k][2] = None \/ fetch_log[k][2][1].len < 1000

\* The communities in the HTML of the last fetch of page p.
CommunitiesOf(p) ==
    LET last == fetch_log[CHOOSE k \in FetchesOf(p) : \A l \in FetchesOf(p) : l <= k][2]
    IN  [k \in 1..Len(last[1].names) |-> <<p, last[1].names[k]>>]

RECURSIVE ExpectedCommunities(_)
ExpectedCommunities(p) ==
    IF p = 0 THEN <<>>
    ELSE ExpectedCommunities(p - 1)
           \o (IF AllFetchesFailed(p) THEN <<>> ELSE CommunitiesOf(p))

\* C25: the pages are fetched in increasing order, every page up to
\* TOTAL_PAGES once the loop has ended; a page is fetched at most twice, the
\* second time exactly when the first fetch gave nothing or fewer than 1000
\* characters; failed_pages holds, in order, exactly the pages whose two
\* fetches both failed; after a failed page the loop goes on with the next
\* page, and all_communities holds the communities of the other pages only.
C25_ScrapeLoop ==
    /\ \A k, l \in 1..Len(fetch_log) : k < l => fetch_log[k][1] <= fetch_log[l][1]
    /\ \A k \in 1..Len(fetch_log) : fetch_log[k][1] \in 1..TOTAL_PAGES
    /\ \A p \in 1..TOTAL_PAGES :
          /\ Cardinality(FetchesOf(p)) <= 2
          /\ p \in PagesDone => Cardinality(FetchesOf(p)) >= 1
          /\ p > page => FetchesOf(p) = {}
    /\ \A p \in PagesDone :
          LET first == fetch_log[CHOOSE k \in FetchesOf(p) : \A l \in FetchesOf(p) : k <= l][2]
          IN  Cardinality(FetchesOf(p)) = 2 <=>
                  (first = None \/ first[1].len < 1000)
    /\ \A p \in PagesDone :
          (\E k \in 1..Len(failed_pages) : failed_pages[k] = p) <=>
              (Cardinality(FetchesOf(p)) = 2 /\ AllFetchesFailed(p))
    /\ \A k, l \in 1..Len(failed_pages) : k < l => failed_pages[k] < failed_pages[l]
    /\ \A k \in 1..Len(failed_pages) : failed_pages[k] \in PagesDone
    /\ all_communities = ExpectedCommunities(page - 1)
    /\ spc = "done" <=> page = TOTAL_PAGES + 1
    /\ page \in 1..(TOTAL_PAGES + 1)
    /\ spc # "done" => ENABLED NextScrape

\* C25 witness: the loop has ended; page 1 failed twice, the second time with
\* a short page that held a community, and the following pages were fetched
\* and gave communities, one of them at its second fetch.
C25_Witness ==
    /\ spc = "done"
    /\ failed_pages = <<1>>
    /\ Cardinality(FetchesOf(1)) = 2
    /\ \E k \in FetchesOf(1) : fetch_log[k][2] # None /\ fetch_log[k][2][1].names # <<>>
    /\ \E p \in 2..TOTAL_PAGES : Cardinality(FetchesOf(p)) = 2
    /\ \A k \in 1..Len(all_communities) : all_communities[k][1] > 1
    /\ all_communities # <<>>

-----------------------------------------------------------------------------
(* scripts/geocode_communities.py.  Coordinates are whole millionths of a   *)
(* degree, so that "%.6f" of a coordinate is the text of that number; the  *)
(* text of a CSV cell is <<>> when empty and <<v>> when it shows v.         *)

POI_EXACT == "POIU7CBEU786E"           \* "POI" + U+7CBE U+786E
GEOCODED == "U5730U7406U7F16U7801"
DEFAULTED == "U9ED8U8BA4"

ZONE_1 == "U9AD8U65B0U4E00U671F"
ZONE_2 == "U9AD8U65B0U4E8CU671F"
ZONE_3 == "U9AD8U65B0U4E09U671F"
ZONE_SOFTWARE == "U8F6FU4EF6U65B0U57CE"
ZONE_OTHER == "U5176U4ED6"

Keywords1 ==
    {<<"U9AD8", "U65B0", "U8DEF">>, <<"U9AD8", "U65B0", "U56DB", "U8DEF">>,
     <<"U592A", "U767D", "U7ACB", "U4EA4">>, <<"U7535", "U5B50", "U57CE">>,
     <<"U516C", "U4EA4", "U4E94", "U516C", "U53F8">>}

Keywords2 ==
    {<<"U9526", "U4E1A", "U8DEF">>, <<"U5510", "U5EF6", "U8DEF">>,
     <<"U9AD8", "U65B0", "U4E00", "U4E2D">>, <<"C", "I", "D">>,
     <<"U5F90", "U5BB6", "U5E84">>}

Keywords3 ==
    {<<"U897F", "U4E07", "U8DEF", "U53E3">>, <<"U5927", "U5B66", "U57CE">>,
     <<"U90ED", "U675C">>, <<"U897F", "U6CA3", "U8DEF">>}

classify_zone(bankuai) ==
    IF bankuai = <<>> THEN ZONE_OTHER
    ELSE IF \E kw \in Keywords1 : IsSubstring(kw, bankuai) THEN ZONE_1
    ELSE IF \E kw \in Keywords2 : IsSubstring(kw, bankuai) THEN ZONE_2
    ELSE IF \E kw \in Keywords3 : IsSubstring(kw, bankuai) THEN ZONE_3
    ELSE IF IsSubstring(<<"U8F6F", "U4EF6">>, bankuai) THEN ZONE_SOFTWARE
    ELSE ZONE_OTHER

gcj02_to_wgs84(lng, lat) == <<lng - 6500, lat - 6000>>

\* What the POI search API can answer: no answer (an exception), an answer
\* without pois, or a first poi whose location is missing, a dict, a
\* "lng,lat" string, a string without comma, or a dict that is not numeric.
PoiResponses ==
    {[kind |-> k, lng |-> 0, lat |-> 0] :
        k \in {"error", "no_pois", "no_location", "no_comma", "not_numeric"}}
    \cup {[kind |-> k, lng |-> c[1], lat |-> c[2]] :
            k \in {"dict", "string"}, c \in {<<0, 0>>, <<108900000, 34200000>>}}

\* poi_search: (lng, lat) or None.
poi_search(resp) ==
    IF resp.kind \in {"dict", "string"} THEN Some(<<resp.lng, resp.lat>>) ELSE None

\* What the geocoding API can answer: no answer, no geocodes, a location
\* that is a "lng,lat" string, or one without comma.
GeoResponses ==
    {[kind |-> k, lng |-> 0, lat |-> 0] : k \in {"error", "no_geocodes", "no_comma"}}
    \cup {[kind |-> "string", lng |-> c[1], lat |-> c[2]] :
            c \in {<<6500, 6000>>, <<108900000, 34200000>>}}

\* geocode: (lng, lat) or None.
geocode(resp) ==
    IF resp.kind = "string" THEN Some(<<resp.lng, resp.lat>>) ELSE None

\* Mutant of the label: a row located by the fallback keeps the default label.
Accuracy_FallbackDefault(poi_result, geo_result) ==
    IF poi_result # None THEN POI_EXACT ELSE DEFAULTED

\* Lines 142-151: the label, from the results of the two calls (geo_result
\* is the result of the fallback, which is made only when poi_result is None).
Accuracy(poi_result, geo_result) ==
    IF poi_result # None THEN POI_EXACT
    ELSE IF geo_result # None THEN GEOCODED
    ELSE DEFAULTED

\* Rows of gaoxin_esf_all.csv: the name and the sub-area cell.
GeoRows ==
    { [name |-> "n1", bankuai |-> <<>>],
      [name |-> "n2", bankuai |-> <<"U5510", "U5EF6", "U8DEF", "U5357", "U6BB5">>],
      [name |-> "n3", bankuai |-> <<"U8F6F", "U4EF6", "U65B0", "U57CE">>] }

\* main before its loop.
InitGeo ==
    /\ ValidateIdle /\ ScrapeIdle /\ ScanIdle
    /\ rows \in SeqsUpTo(GeoRows, MaxRows)
    /\ stats = [a \in {POI_EXACT, GEOCODED, DEFAULTED} |-> 0]
    /\ zone_stats = EmptyDict
    /\ api_log = <<>>
    /\ gi = 1
    /\ gpc = "row"

\* Lines 129-174: one iteration of the loop over rows.
GeocodeRow ==
    /\ gpc = "row"
    /\ gi <= Len(rows)
    /\ \E presp \in PoiResponses, gresp \in GeoResponses :
          LET zone == classify_zone(rows[gi].bankuai)
              first == poi_search(presp)
              second == IF first # None THEN None ELSE geocode(gresp)
              result == IF first # None THEN first ELSE second
              accuracy == Accuracy(first, second)
              wgs == gcj02_to_wgs84(result[1][1], result[1][2])
          IN  /\ rows' = [rows EXCEPT ![gi] =
                    [name |-> @.name, bankuai |-> @.bankuai, zone |-> zone,
                     lng |-> IF result # None THEN <<wgs[1]>> ELSE <<>>,
                     lat |-> IF result # None THEN <<wgs[2]>> ELSE <<>>,
                     accuracy |-> accuracy]]
              /\ zone_stats' =
                    [z \in DOMAIN zone_stats \cup {zone} |->
                        IF z = zone
                        THEN (IF z \in DOMAIN zone_stats THEN zone_stats[z] ELSE 0) + 1
                        ELSE zone_stats[z]]
              /\ stats' = [stats EXCEPT ![accuracy] = @ + 1]
              /\ api_log' =
                    IF first # None
                    THEN Append(api_log, <<gi, "poi_search", first>>)
                    ELSE api_log \o << <<gi, "poi_search", first>>,
                                      <<gi, "geocode", second>> >>
    /\ gi' = gi + 1
    /\ UNCHANGED gpc
    /\ UNCHANGED <<mainVars, first_run, nameVars, scrapeVars, scanVars>>

\* Lines 176-183: the loop is over and the CSV is written.
GeoFinish ==
    /\ gpc = "row"
    /\ gi > Len(rows)
    /\ gpc' = "done"
    /\ UNCHANGED <<rows, stats, zone_stats, api_log, gi>>
    /\ UNCHANGED <<mainVars, first_run, nameVars, scrapeVars, scanVars>>

NextGeo == GeocodeRow \/ GeoFinish

SpecGeo == InitGeo /\ [][NextGeo]_vars

\* The rows whose iteration has ended.
RowsDone == 1..(gi - 1)

\* The positions of api_log that are calls made for row i.
CallsOf(i) == {k \in 1..Len(api_log) : api_log[k][1] = i}

PoiCallsOf(i) == {k \in CallsOf(i) : api_log[k][2] = "poi_search"}

GeocodeCallsOf(i) == {k \in CallsOf(i) : api_log[k][2] = "geocode"}

PoiSucceeded(i) == \E k \in PoiCallsOf(i) : api_log[k][3] # None

GeocodeSucceeded(i) == \E k \in GeocodeCallsOf(i) : api_log[k][3] # None

\* C26: for every processed row the POI search is called once and first,
\* and the geocoding API is called, once, exactly when the POI search gave
\* nothing; the label is POI_EXACT exactly when the POI search succeeded,
\* GEOCODED exactly when only the fallback succeeded, DEFAULTED exactly when
\* both failed; the coordinate cells are empty exactly when the label is
\* DEFAULTED; and each row adds one to exactly one counter of stats, so the
\* counters add up to the number of rows processed.
C26_GeocodeFallback ==
    /\ \A k, l \in 1..Len(api_log) : k < l => api_log[k][1] <= api_log[l][1]
    /\ \A k \in 1..Len(api_log) : api_log[k][1] \in RowsDone
    /\ \A i \in RowsDone :
          /\ Cardinality(PoiCallsOf(i)) = 1
          /\ Cardinality(GeocodeCallsOf(i)) = IF PoiSucceeded(i) THEN 0 ELSE 1
          /\ \A k \in PoiCallsOf(i) : \A l \in GeocodeCallsOf(i) : k < l
          /\ rows[i].accuracy = POI_EXACT <=> PoiSucceeded(i)
          /\ rows[i].accuracy = GEOCODED <=> (~PoiSucceeded(i) /\ GeocodeSucceeded(i))
          /\ rows[i].accuracy = DEFAULTED <=> (~PoiSucceeded(i) /\ ~GeocodeSucceeded(i))
          /\ rows[i].lng = <<>> <=> rows[i].accuracy = DEFAULTED
          /\ rows[i].lat = <<>> <=> rows[i].accuracy = DEFAULTED
    /\ \A a \in {POI_EXACT, GEOCODED, DEFAULTED} :
          stats[a] = Cardinality({i \in RowsDone : rows[i].accuracy = a})
    /\ stats[POI_EXACT] + stats[GEOCODED] + stats[DEFAULTED] = gi - 1
    /\ gpc = "done" =>
          stats[POI_EXACT] + stats[GEOCODED] + stats[DEFAULTED] = Len(rows)

\* C26 witness: the loop has ended over two rows, one located by the
\* fallback at longitude 0 and latitude 0 after the POI search failed, the
\* other located by neither call.
C26_Witness ==
    /\ gpc = "done"
    /\ Len(rows) = 2
    /\ rows[1].accuracy = GEOCODED
    /\ rows[1].lng = <<0>> /\ rows[1].lat = <<0>>
    /\ rows[2].accuracy = DEFAULTED
    /\ Len(api_log) = 4
    /\ stats[GEOCODED] = 1 /\ stats[DEFAULTED] = 1 /\ stats[POI_EXACT] = 0

-----------------------------------------------------------------------------
(* scripts/scan_amap_pois.py.  A poi of an API answer is given by its id,   *)
(* the rank of its name in the sort order, and the kind of its location.   *)
(* The text of a count is <<n>> when it reads as the number n and <<>>      *)
(* when it is not a number.                                                *)

ApiPois ==
    [a1 |-> [id |-> "p1", name |-> 2, loc |-> "ok"],
     a2 |-> [id |-> "p1", name |-> 1, loc |-> "ok"],
     b1 |-> [id |-> "p2", name |-> 2, loc |-> "ok"],
     m1 |-> [id |-> "p2", name |-> 1, loc |-> "missing"],
     x1 |-> [id |-> "p3", name |-> 1, loc |-> "not_numeric"]]

\* The "pois" lists of the answers.
PoiLists ==
    {<<>>, <<ApiPois.a1>>, <<ApiPois.a2, ApiPois.m1>>,
     <<ApiPois.b1, ApiPois.a1, ApiPois.a2>>, <<ApiPois.x1>>}

\* What search_around can return for a first page: None on an exception, or
\* the decoded answer.
FirstResponses ==
    {None}
    \cup {Some([status |-> "0", count |-> <<0>>, pois |-> <<>>])}
    \cup {Some([status |-> "1", count |-> c, pois |-> l]) :
            c \in {<<0>>, <<25>>, <<26>>, <<51>>, <<476>>}, l \in PoiLists}
    \cup {Some([status |-> "1", count |-> <<>>, pois |-> <<ApiPois.a1>>])}

\* What search_around can return for a later page.
LaterResponses ==
    {None}
    \cup {Some([status |-> "0", count |-> <<0>>, pois |-> <<ApiPois.b1>>])}
    \cup {Some([status |-> "1", count |-> <<476>>, pois |-> l]) : l \in PoiLists}

\* What the log keeps of a first-page answer: its status and its count.
Summary(d) == IF d = None THEN <<"None">> ELSE <<d[1].status, d[1].count>>

\* "data and data.get('status') == '1'"
Succeeded(d) == d # None /\ d[1].status = "1"

\* parse_pois raises (ValueError in float) on a location that has a comma
\* and no numbers.
ParseRaises(d) ==
    Succeeded(d) /\ \E k \in 1..Len(d[1].pois) : d[1].pois[k].loc = "not_numeric"

\* parse_pois: the pois of a successful answer that have a location.
parse_pois(d) ==
    IF ~Succeeded(d) THEN <<>>
    ELSE LET kept == SelectSeq(d[1].pois, LAMBDA q : q.loc # "missing")
         IN  [k \in 1..Len(kept) |-> [poi_id |-> kept[k].id, name |-> kept[k].name]]

\* all_pois[p["poi_id"]] = p
DictSet(dict, q) ==
    IF \E k \in 1..Len(dict) : dict[k].poi_id = q.poi_id
    THEN [k \in 1..Len(dict) |-> IF dict[k].poi_id = q.poi_id THEN q ELSE dict[k]]
    ELSE Append(dict, q)

\* "for p in pois: all_pois[p['poi_id']] = p"
RECURSIVE StoreAll(_, _)
StoreAll(dict, pois) ==
    IF pois = <<>> THEN dict ELSE StoreAll(DictSet(dict, Head(pois)), Tail(pois))

\* Mutant of the end of the inner range: the cap of 20 is missing.
StopPage_NoCap(total_count) ==
    (total_count + PAGE_SIZE - 1) \div PAGE_SIZE + 1

\* min(total_pages + 1, 20) with total_pages = ceil(total_count / PAGE_SIZE)
StopPage(total_count) ==
    LET total_pages == (total_count + PAGE_SIZE - 1) \div PAGE_SIZE
    IN  IF total_pages + 1 < 20 THEN total_pages + 1 ELSE 20

\* sorted(all_pois.values(), key=name): a stable insertion sort.
RECURSIVE InsertByName(_, _)
InsertByName(sorted, q) ==
    IF sorted = <<>> THEN <<q>>
    ELSE IF sorted[Len(sorted)].name <= q.name THEN Append(sorted, q)
    ELSE Append(InsertByName(SubSeq(sorted, 1, Len(sorted) - 1), q),
                sorted[Len(sorted)])

RECURSIVE SortedByName(_)
SortedByName(values) ==
    IF values = <<>> THEN <<>>
    ELSE InsertByName(SortedByName(SubSeq(values, 1, Len(values) - 1)),
                      values[Len(values)])

\* main before its loop, the grid cells generated.
InitScan ==
    /\ ValidateIdle /\ ScrapeIdle /\ GeoIdle
    /\ \E n \in 1..MaxCells : centers = [k \in 1..n |-> k]
    /\ data = None
    /\ all_pois = <<>>
    /\ csv_rows = <<>>
    /\ search_log = <<>>
    /\ ci = 1
    /\ next_page = 0
    /\ stop_page = 0
    /\ cpc = "first"

\* The position after the iteration of cell ci.
AfterCell == IF ci + 1 > Len(centers) THEN "write" ELSE "first"

\* Lines 107-121: the first page of a cell.
SearchFirst ==
    /\ cpc = "first"
    /\ \E d \in FirstResponses :
          /\ data' = d
          /\ search_log' = Append(search_log, <<ci, 1, Summary(d)>>)
          /\ IF ~Succeeded(d)
             THEN /\ UNCHANGED <<all_pois, next_page, stop_page>>
                  /\ ci' = ci + 1
                  /\ cpc' = AfterCell
             ELSE IF ParseRaises(d)
             THEN /\ UNCHANGED <<all_pois, next_page, stop_page, ci>>
                  /\ cpc' = "crashed"
             ELSE IF d[1].count = <<>>
             THEN /\ all_pois' = StoreAll(all_pois, parse_pois(d))
                  /\ UNCHANGED <<next_page, stop_page, ci>>
                  /\ cpc' = "crashed"
             ELSE /\ all_pois' = StoreAll(all_pois, parse_pois(d))
                  /\ IF d[1].count[1] > PAGE_SIZE
                     THEN /\ next_page' = 2
                          /\ stop_page' = StopPage(d[1].count[1])
                          /\ UNCHANGED ci
                          /\ cpc' = "more"
                     ELSE /\ UNCHANGED <<next_page, stop_page>>
                          /\ ci' = ci + 1
                          /\ cpc' = AfterCell
    /\ UNCHANGED <<centers, csv_rows>>
    /\ UNCHANGED <<mainVars, first_run, nameVars, scrapeVars, geoVars>>

\* Lines 121-128: a further page of the cell.
SearchMore ==
    /\ cpc = "more"
    /\ \E d \in LaterResponses :
          /\ data' = d
          /\ search_log' = Append(search_log, <<ci, next_page, <<>>>>)
          /\ IF ParseRaises(d)
             THEN /\ UNCHANGED <<all_pois, next_page, ci>>
                  /\ cpc' = "crashed"
             ELSE /\ all_pois' = IF d # None THEN StoreAll(all_pois, parse_pois(d))
                                 ELSE all_pois
                  /\ next_page' = next_page + 1
                  /\ IF next_page + 1 < stop_page
                     THEN UNCHANGED <<ci, cpc>>
                     ELSE ci' = ci + 1 /\ cpc' = AfterCell
    /\ UNCHANGED <<centers, csv_rows, stop_page>>
    /\ UNCHANGED <<mainVars, first_run, nameVars, scrapeVars, geoVars>>

\* Lines 140-146: the CSV is written.
WriteCsv ==
    /\ cpc = "write"
    /\ csv_rows' = SortedByName(all_pois)
    /\ cpc' = "done"
    /\ UNCHANGED <<centers, data, all_pois, search_log, ci, next_page, stop_page>>
    /\ UNCHANGED <<mainVars, first_run, nameVars, scrapeVars, geoVars>>

NextScan == SearchFirst \/ SearchMore \/ WriteCsv

SpecScan == InitScan /\ [][NextScan]_vars

\* The pages requested for cell c, and the log entry of its first page.
PagesOf(c) == {search_log[k][2] : k \in {j \in 1..Len(search_log) : search_log[j][1] = c}}

FirstAnswerOf(c) ==
    {search_log[k][3] : k \in {j \in 1..Len(search_log) :
                                  search_log[j][1] = c /\ search_log[j][2] = 1}}

\* No two records of the list share a poi_id.
OnePerId(records) ==
    \A k, l \in 1..Len(records) :
        k # l => records[k].poi_id # records[l].poi_id

\* The records of the list that carry the poi_id.
RecordsOf(records, id) == {records[k] : k \in {j \in 1..Len(records) : records[j].poi_id = id}}

PoiIds == {ApiPois[f].id : f \in DOMAIN ApiPois}

C27_Pages ==
    /\ OnePerId(all_pois)
    /\ cpc = "done" =>
          /\ OnePerId(csv_rows)
          /\ \A id \in PoiIds : RecordsOf(csv_rows, id) = RecordsOf(all_pois, id)
    /\ \A c \in 1..Len(centers) :
          /\ PagesOf(c) \subseteq 1..19
          /\ \A p \in PagesOf(c) : p > 1 => p - 1 \in PagesOf(c)
          /\ (\E p \in PagesOf(c) : p > 1) =>
                \E a \in FirstAnswerOf(c) :
                    /\ a[1] = "1"
                    /\ a[2] # <<>>
                    /\ a[2][1] > PAGE_SIZE

C27_LastSeen ==
    (search_log' # search_log /\ cpc' # "crashed") =>
        LET seen == parse_pois(data')
        IN  \A id \in PoiIds :
                LET at == {k \in 1..Len(seen) : seen[k].poi_id = id}
                IN  IF at = {}
                    THEN RecordsOf(all_pois', id) = RecordsOf(all_pois, id)
                    ELSE RecordsOf(all_pois', id) =
                           {seen[CHOOSE k \in at : \A j \in at : j <= k]}

\* C27: the collected pois hold at most one record per poi_id, the one seen
\* last: each answer's records replace those held under their poi_id and
\* leave the others, and the rows written are those records.  For each cell
\* the pages requested are 1..n with n <= 19, and a page after the first is
\* requested only when the first page's answer had status "1" and a count
\* above PAGE_SIZE.
C27_ScanDedupAndPages == []C27_Pages /\ [][C27_LastSeen]_vars

\* The scan is over; a cell whose first page reported 476 results had
\* exactly pages 1 to 19 requested, the last answer held poi p1 twice, and
\* the row written for p1 is its second record.
C27_Witness ==
    /\ cpc = "done"
    /\ \E c \in 1..Len(centers) :
          /\ PagesOf(c) = 1..19
          /\ FirstAnswerOf(c) = {<<"1", <<476>>>>}
    /\ data = Some([status |-> "1", count |-> <<476>>,
                     pois |-> <<ApiPois.b1, ApiPois.a1, ApiPois.a2>>])
    /\ RecordsOf(csv_rows, "p1") = {[poi_id |-> "p1", name |-> 1]}
    /\ Len(csv_rows) = 2

====
